---- MODULE Spec2Model ----
(***************************************************************************)
(* A model of the Coordinate Picker: the Canvas view transform             *)
(* (canvas.rs), the CoordinateSystem (coordinate.rs), the Grid (grid.rs),  *)
(* the Marker list (marker.rs) and the controller CoordinatePickerApp of   *)
(* src/src/app.rs.                                                         *)
(*                                                                         *)
(* Numbers.  The program computes in f32.  The model computes in exact     *)
(* rationals <<n, d>> (d > 0, lowest terms): every +, -, *, / of the       *)
(* source is the rational operation, without f32 rounding, overflow or     *)
(* NaN.  Equalities established here are equalities of the real-number     *)
(* results; in f32 they hold up to rounding.                               *)
(***************************************************************************)
EXTENDS Integers, Sequences, FiniteSets, TLC

\* The fields of CoordinatePickerApp (src/src/app.rs:11-19)
\* clipboard: the clipboard service, if any, and the text it holds.  Only the
\* copy buttons use it; the runs without copy buttons start with a service.
VARIABLES canvas, grid, coordinate_system, markers, ui_state, resolution_presets,
          clipboard

\* budget: the number of operations the run may still perform
\* last:   the operation performed last, its inputs and the state it started from
VARIABLES budget, last

vars == <<canvas, grid, coordinate_system, markers, ui_state, resolution_presets,
          clipboard, budget, last>>

-----------------------------------------------------------------------------
(* f32 arithmetic, as exact rationals *)

Abs(i) == IF i < 0 THEN -i ELSE i

RECURSIVE Gcd(_, _)
Gcd(a, b) == IF b = 0 THEN a ELSE Gcd(b, a % b)

\* n/d in lowest terms with a positive denominator
Rat(n, d) ==
    LET s == IF d < 0 THEN -1 ELSE 1
        g == Gcd(Abs(n), Abs(d))
    IN  <<(s * n) \div g, (s * d) \div g>>

f32(i) == <<i, 1>>

RAdd(a, b) ==
    LET g == Gcd(a[2], b[2])
    IN  Rat(a[1] * (b[2] \div g) + b[1] * (a[2] \div g), (a[2] \div g) * b[2])

RNeg(a) == <<-a[1], a[2]>>

RSub(a, b) == RAdd(a, RNeg(b))

RMul(a, b) ==
    LET g1 == Gcd(Abs(a[1]), b[2])
        g2 == Gcd(Abs(b[1]), a[2])
    IN  Rat((a[1] \div g1) * (b[1] \div g2), (a[2] \div g2) * (b[2] \div g1))

\* a / b, b # 0
RDiv(a, b) == RMul(a, Rat(b[2], b[1]))

RLt(a, b) ==
    LET g == Gcd(a[2], b[2])
    IN  a[1] * (b[2] \div g) < b[1] * (a[2] \div g)

RLe(a, b) == a = b \/ RLt(a, b)

\* clamp without its upper bound
clamp_lower_only(x, lo, hi) == IF RLt(x, lo) THEN lo ELSE x

\* f32::clamp(min, max)
clamp(x, lo, hi) == IF RLt(x, lo) THEN lo ELSE IF RLt(hi, x) THEN hi ELSE x

\* a rounding that always goes to the integer above
round_next(a) ==
    f32((IF a[1] >= 0 THEN a[1] \div a[2] ELSE -((-a[1] + a[2] - 1) \div a[2])) + 1)

\* f32::round: to the nearest integer, halves away from zero
round(a) ==
    LET m == (2 * Abs(a[1]) + a[2]) \div (2 * a[2])
    IN  f32(IF a[1] < 0 THEN -m ELSE m)

-----------------------------------------------------------------------------
(* egui::Pos2 / Vec2 / Rect *)

pos2(x, y) == [x |-> x, y |-> y]

ZERO == pos2(f32(0), f32(0))

VAdd(p, q) == pos2(RAdd(p.x, q.x), RAdd(p.y, q.y))

VSub(p, q) == pos2(RSub(p.x, q.x), RSub(p.y, q.y))

VScale(p, k) == pos2(RMul(p.x, k), RMul(p.y, k))

VDiv(p, k) == pos2(RDiv(p.x, k), RDiv(p.y, k))

Rect(lo, hi) == [min |-> lo, max |-> hi]

\* Rect::center
center(r) == VScale(VAdd(r.min, r.max), Rat(1, 2))

\* Rect::from_center_size
from_center_size(c, size) ==
    Rect(VSub(c, VScale(size, Rat(1, 2))), VAdd(c, VScale(size, Rat(1, 2))))

\* Rect::contains: both bounds inclusive
contains(r, p) ==
    /\ RLe(r.min.x, p.x) /\ RLe(p.x, r.max.x)
    /\ RLe(r.min.y, p.y) /\ RLe(p.y, r.max.y)

-----------------------------------------------------------------------------
(* canvas.rs: Canvas *)

ZoomMin == Rat(1, 10)
ZoomMax == f32(10)
DefaultZoom == Rat(1, 2)

Canvas_new(width, height) ==
    [width |-> width, height |-> height, offset |-> ZERO, zoom |-> DefaultZoom]

\* a set_size that also puts the view back to its start
Canvas_set_size_recentred(c, width, height) ==
    [c EXCEPT !.width = width, !.height = height, !.offset = ZERO,
              !.zoom = DefaultZoom]

Canvas_set_size(c, width, height) ==
    [c EXCEPT !.width = width, !.height = height]

\* a pan that keeps the offset within 1000 of the centre
pan_clamped(c, delta) ==
    [c EXCEPT !.offset =
        pos2(clamp(RAdd(c.offset.x, delta.x), f32(-1000), f32(1000)),
             clamp(RAdd(c.offset.y, delta.y), f32(-1000), f32(1000)))]

pan(c, delta) == [c EXCEPT !.offset = VAdd(c.offset, delta)]

\* zoom_at correcting the offset by the requested factor
zoom_at_requested(c, factor, pos, view_rect) ==
    [c EXCEPT
        !.zoom = clamp(RMul(c.zoom, factor), ZoomMin, ZoomMax),
        !.offset = VSub(c.offset,
                        VScale(VSub(pos, center(view_rect)),
                               RSub(factor, f32(1))))]

zoom_at(c, factor, pos, view_rect) ==
    LET old_zoom == c.zoom
        new_zoom == clamp(RMul(c.zoom, factor), ZoomMin, ZoomMax)
        view_center == center(view_rect)
        mouse_offset == VSub(pos, view_center)
    IN  [c EXCEPT
            !.zoom = new_zoom,
            !.offset = VSub(c.offset,
                            VScale(mouse_offset,
                                   RSub(RDiv(new_zoom, old_zoom), f32(1))))]

\* reset_view that forgets the zoom
reset_view_offset_only(c) == [c EXCEPT !.offset = ZERO]

reset_view(c) == [c EXCEPT !.offset = ZERO, !.zoom = DefaultZoom]

get_screen_rect(c, view_rect) ==
    LET ctr == VAdd(center(view_rect), c.offset)
        half_size == VScale(VScale(pos2(c.width, c.height), Rat(1, 2)), c.zoom)
    IN  from_center_size(ctr, VScale(half_size, f32(2)))

\* screen_to_canvas_pos that forgets the zoom
screen_to_canvas_pos_unscaled(c, screen_pos, view_rect) ==
    VSub(screen_pos, get_screen_rect(c, view_rect).min)

screen_to_canvas_pos(c, screen_pos, view_rect) ==
    LET screen_rect == get_screen_rect(c, view_rect)
    IN  VDiv(VSub(screen_pos, screen_rect.min), c.zoom)

\* canvas_to_screen_pos that forgets the zoom
canvas_to_screen_pos_unscaled(c, canvas_pos, view_rect) ==
    VAdd(get_screen_rect(c, view_rect).min, canvas_pos)

canvas_to_screen_pos(c, canvas_pos, view_rect) ==
    LET screen_rect == get_screen_rect(c, view_rect)
    IN  VAdd(screen_rect.min, VScale(canvas_pos, c.zoom))

-----------------------------------------------------------------------------
(* coordinate.rs: CoordinateSystem *)

CoordinateSystem_new(origin_top_left) ==
    [origin_top_left |-> origin_top_left, canvas_height |-> f32(1080)]

set_origin_top_left(cs, origin_top_left) ==
    [cs EXCEPT !.origin_top_left = origin_top_left]

\* update_canvas_height that stores nothing
update_canvas_height_dropped(cs, height) == cs

update_canvas_height(cs, height) == [cs EXCEPT !.canvas_height = height]

\* to_system_coordinates without the flip
to_system_coordinates_unflipped(cs, canvas_pos) == canvas_pos

to_system_coordinates(cs, canvas_pos) ==
    IF cs.origin_top_left
    THEN canvas_pos
    ELSE pos2(canvas_pos.x, RSub(cs.canvas_height, canvas_pos.y))

from_system_coordinates(cs, system_pos) ==
    IF cs.origin_top_left
    THEN system_pos
    ELSE pos2(system_pos.x, RSub(cs.canvas_height, system_pos.y))

-----------------------------------------------------------------------------
(* grid.rs: Grid;  marker.rs: Marker;  ui.rs: UiState *)

Grid_new(size, visible) == [size |-> size, visible |-> visible, snapping |-> FALSE]

Grid_set_size(g, size) == [g EXCEPT !.size = size]

set_visible(g, visible) == [g EXCEPT !.visible = visible]

set_snapping(g, snapping) == [g EXCEPT !.snapping = snapping]

Marker_new(position, system_position, color) ==
    [position |-> position, system_position |-> system_position, color |-> color]

\* Color32::from_rgb(0, 120, 255), the default marker colour
DefaultColor == <<0, 120, 255>>

\* UiState::default(); the appearance flag dark_mode is not modelled
UiState_default ==
    [selected_resolution |-> "Full HD (1920x1080)",
     custom_width |-> f32(1920),
     custom_height |-> f32(1080),
     show_grid |-> TRUE,
     grid_size |-> f32(45),
     enable_snapping |-> TRUE,
     origin_top_left |-> TRUE,
     marker_color |-> DefaultColor,
     current_position |-> ZERO,
     current_position_raw |-> ZERO,
     recalculate_markers |-> TRUE]

-----------------------------------------------------------------------------
(* src/src/app.rs: CoordinatePickerApp, as operators on the record of its  *)
(* fields                                                                  *)

None == <<>>
Some(v) == <<v>>

\* the preset table built by CoordinatePickerApp::new
Presets ==
    [p \in {"HD (1280x720)", "Full HD (1920x1080)", "4K (3840x2160)",
            "iPhone (390x844)", "iPad (810x1080)", "Custom"} |->
        CASE p = "HD (1280x720)" -> <<f32(1280), f32(720)>>
          [] p = "Full HD (1920x1080)" -> <<f32(1920), f32(1080)>>
          [] p = "4K (3840x2160)" -> <<f32(3840), f32(2160)>>
          [] p = "iPhone (390x844)" -> <<f32(390), f32(844)>>
          [] p = "iPad (810x1080)" -> <<f32(810), f32(1080)>>
          [] p = "Custom" -> <<f32(800), f32(600)>>]

update_canvas_resolution(s) ==
    LET sel == s.ui_state.selected_resolution
    IN  IF sel \in DOMAIN s.resolution_presets
        THEN LET width == s.resolution_presets[sel][1]
                 height == s.resolution_presets[sel][2]
             IN  IF sel = "Custom"
                 THEN [s EXCEPT
                        !.canvas = Canvas_set_size(@, s.ui_state.custom_width,
                                                   s.ui_state.custom_height),
                        !.coordinate_system =
                            update_canvas_height(@, s.ui_state.custom_height)]
                 ELSE [s EXCEPT
                        !.canvas = Canvas_set_size(@, width, height),
                        !.ui_state.custom_width = width,
                        !.ui_state.custom_height = height,
                        !.coordinate_system = update_canvas_height(@, height)]
        ELSE s

new ==
    LET ui == UiState_default
        app == [canvas |-> Canvas_new(f32(1920), f32(1080)),
                grid |-> Grid_new(f32(45), TRUE),
                coordinate_system |-> CoordinateSystem_new(TRUE),
                markers |-> <<>>,
                ui_state |-> ui,
                resolution_presets |-> Presets]
        configured ==
            [app EXCEPT
                !.grid = set_snapping(
                            set_visible(Grid_set_size(@, ui.grid_size), ui.show_grid),
                            ui.enable_snapping),
                !.coordinate_system = set_origin_top_left(@, ui.origin_top_left)]
    IN  update_canvas_resolution(configured)

apply_grid_snapping(s, pos) ==
    IF s.grid.snapping
    THEN LET grid_size == s.grid.size
             canvas_width == s.canvas.width
             canvas_height == s.canvas.height
             half == RDiv(grid_size, f32(2))
             x == RMul(round(RDiv(pos.x, grid_size)), grid_size)
             y == RMul(round(RDiv(pos.y, grid_size)), grid_size)
         IN  IF RLt(pos.x, half) THEN pos2(f32(0), y)
             ELSE IF RLt(RSub(canvas_width, half), pos.x) THEN pos2(canvas_width, y)
             ELSE IF RLt(pos.y, half) THEN pos2(x, f32(0))
             ELSE IF RLt(RSub(canvas_height, half), pos.y) THEN pos2(x, canvas_height)
             ELSE pos2(x, y)
    ELSE pos

\* the snapped position as handle_canvas_interactions computes it
snapped(s, canvas_pos) ==
    IF s.grid.snapping THEN apply_grid_snapping(s, canvas_pos) ELSE canvas_pos

\* remove_nearby_marker's CLICK_THRESHOLD
CLICK_THRESHOLD == f32(10)

RAbs(a) == <<Abs(a[1]), a[2]>>

\* nearby with the threshold included
nearby_inclusive(marker, position) ==
    LET delta == VSub(marker.position, position)
    IN  /\ RLe(RAbs(delta.x), CLICK_THRESHOLD)
        /\ RLe(RAbs(delta.y), CLICK_THRESHOLD)
        /\ RLe(RAdd(RMul(delta.x, delta.x), RMul(delta.y, delta.y)),
               RMul(CLICK_THRESHOLD, CLICK_THRESHOLD))

\* (marker.position - position).length() < CLICK_THRESHOLD, decided on the
\* squares; |delta| < 10 needs |delta.x| < 10 and |delta.y| < 10, which are
\* tested first
nearby(marker, position) ==
    LET delta == VSub(marker.position, position)
    IN  /\ RLt(RAbs(delta.x), CLICK_THRESHOLD)
        /\ RLt(RAbs(delta.y), CLICK_THRESHOLD)
        /\ RLt(RAdd(RMul(delta.x, delta.x), RMul(delta.y, delta.y)),
               RMul(CLICK_THRESHOLD, CLICK_THRESHOLD))

\* Vec::remove(index)
\* Vec::swap_remove: the last element takes the place of the removed one
swap_remove(seq, index) ==
    [i \in 1 .. (Len(seq) - 1) |-> IF i = index THEN seq[Len(seq)] ELSE seq[i]]

remove(seq, index) ==
    [i \in 1 .. (Len(seq) - 1) |-> IF i < index THEN seq[i] ELSE seq[i + 1]]

remove_nearby_marker(s, position) ==
    LET hits == {i \in 1 .. Len(s.markers) : nearby(s.markers[i], position)}
    IN  IF hits # {}
        THEN LET index == CHOOSE i \in hits : \A j \in hits : i <= j
             IN  [s EXCEPT !.markers = remove(@, index)]
        ELSE s

\* one scroll notch: 1.1 up, 1.0 / 1.1 down
zoom_factor(scroll_delta) ==
    IF scroll_delta > 0 THEN Rat(11, 10) ELSE RDiv(f32(1), Rat(11, 10))

\* a hover readout kept for pointers inside the canvas border rectangle
hover_update_inside(s, mouse_pos, canvas_rect) ==
    LET canvas_pos == screen_to_canvas_pos(s.canvas, mouse_pos, canvas_rect)
        snapped_pos == snapped(s, canvas_pos)
    IN  IF contains(get_screen_rect(s.canvas, canvas_rect), mouse_pos)
        THEN [s EXCEPT
                !.ui_state.current_position =
                    to_system_coordinates(s.coordinate_system, snapped_pos),
                !.ui_state.current_position_raw =
                    to_system_coordinates(s.coordinate_system, canvas_pos)]
        ELSE s

\* the hover readout of handle_canvas_interactions
hover_update(s, mouse_pos, canvas_rect) ==
    LET canvas_pos == screen_to_canvas_pos(s.canvas, mouse_pos, canvas_rect)
        snapped_pos == snapped(s, canvas_pos)
    IN  [s EXCEPT
            !.ui_state.current_position =
                to_system_coordinates(s.coordinate_system, snapped_pos),
            !.ui_state.current_position_raw =
                to_system_coordinates(s.coordinate_system, canvas_pos)]

\* place_marker without the test of the snapped point against the canvas size
place_marker_unchecked(s, pos, canvas_rect) ==
    LET border_rect == get_screen_rect(s.canvas, canvas_rect)
        canvas_pos == screen_to_canvas_pos(s.canvas, pos, canvas_rect)
        snapped_pos == snapped(s, canvas_pos)
    IN  IF contains(border_rect, pos)
        THEN [s EXCEPT !.markers =
                Append(@, Marker_new(snapped_pos,
                                     to_system_coordinates(s.coordinate_system,
                                                           snapped_pos),
                                     s.ui_state.marker_color))]
        ELSE s

\* place_marker with the far bounds exclusive
place_marker_exclusive(s, pos, canvas_rect) ==
    LET border_rect == get_screen_rect(s.canvas, canvas_rect)
        canvas_pos == screen_to_canvas_pos(s.canvas, pos, canvas_rect)
        snapped_pos == snapped(s, canvas_pos)
    IN  IF /\ contains(border_rect, pos)
           /\ RLe(f32(0), snapped_pos.x) /\ RLt(snapped_pos.x, s.canvas.width)
           /\ RLe(f32(0), snapped_pos.y) /\ RLt(snapped_pos.y, s.canvas.height)
        THEN [s EXCEPT !.markers =
                Append(@, Marker_new(snapped_pos,
                                     to_system_coordinates(s.coordinate_system,
                                                           snapped_pos),
                                     s.ui_state.marker_color))]
        ELSE s

\* the primary-click branch of handle_canvas_interactions
place_marker(s, pos, canvas_rect) ==
    LET border_rect == get_screen_rect(s.canvas, canvas_rect)
    IN  IF contains(border_rect, pos)
        THEN LET canvas_pos == screen_to_canvas_pos(s.canvas, pos, canvas_rect)
                 snapped_pos == snapped(s, canvas_pos)
             IN  IF /\ RLe(f32(0), snapped_pos.x)
                    /\ RLe(snapped_pos.x, s.canvas.width)
                    /\ RLe(f32(0), snapped_pos.y)
                    /\ RLe(snapped_pos.y, s.canvas.height)
                 THEN LET system_pos ==
                              to_system_coordinates(s.coordinate_system, snapped_pos)
                          marker == Marker_new(snapped_pos, system_pos,
                                               s.ui_state.marker_color)
                      IN  [s EXCEPT !.markers = Append(@, marker)]
                 ELSE s
        ELSE s

\* the secondary-click branch of handle_canvas_interactions
secondary_click(s, pos, canvas_rect) ==
    LET border_rect == get_screen_rect(s.canvas, canvas_rect)
    IN  IF contains(border_rect, pos)
        THEN remove_nearby_marker(
                s, screen_to_canvas_pos(s.canvas, pos, canvas_rect))
        ELSE s

\* One frame of the canvas widget.  inp: drag (None or Some(drag_delta) when
\* the widget is dragged by the middle button or by Alt+primary),
\* scroll_delta (its sign), hover_pos (None or Some(pointer)), clicked,
\* secondary_clicked.
handle_canvas_interactions(s, canvas_rect, inp) ==
    LET hovered == inp.hover_pos # None
        s1 == IF inp.drag # None
              THEN [s EXCEPT !.canvas = pan(@, inp.drag[1])]
              ELSE s
        s2 == IF hovered /\ inp.scroll_delta # 0
              THEN [s1 EXCEPT !.canvas = zoom_at(@, zoom_factor(inp.scroll_delta),
                                                 inp.hover_pos[1], canvas_rect)]
              ELSE s1
        s3 == IF hovered THEN hover_update(s2, inp.hover_pos[1], canvas_rect) ELSE s2
        s4 == IF inp.clicked /\ hovered
              THEN place_marker(s3, inp.hover_pos[1], canvas_rect)
              ELSE s3
        s5 == IF inp.secondary_clicked /\ hovered
              THEN secondary_click(s4, inp.hover_pos[1], canvas_rect)
              ELSE s4
    IN  s5

-----------------------------------------------------------------------------
(* src/src/app.rs: the panels of CoordinatePickerApp::update *)

\* "Canvas Size": the combo box shows `preset` selected, the drag values
\* (shown for Custom) hold custom_width, custom_height
canvas_size_panel(s, preset, custom_width, custom_height) ==
    LET s1 == [s EXCEPT !.ui_state.selected_resolution = preset]
        s2 == IF preset = "Custom"
              THEN [s1 EXCEPT !.ui_state.custom_width = custom_width,
                              !.ui_state.custom_height = custom_height]
              ELSE s1
    IN  update_canvas_resolution(s2)

\* "Grid": the widgets hold show_grid, grid_size, enable_snapping
grid_panel(s, show_grid, grid_size, enable_snapping) ==
    LET changed == \/ show_grid # s.ui_state.show_grid
                   \/ grid_size # s.ui_state.grid_size
                   \/ enable_snapping # s.ui_state.enable_snapping
        s1 == [s EXCEPT !.ui_state.show_grid = show_grid,
                        !.ui_state.grid_size = grid_size,
                        !.ui_state.enable_snapping = enable_snapping]
    IN  IF changed
        THEN [s1 EXCEPT
                !.grid = set_snapping(
                            set_visible(Grid_set_size(@, grid_size), show_grid),
                            enable_snapping)]
        ELSE s1

\* a recomputation that writes the converted point to both positions
recalculate_marker_moved(s, marker, old_origin_top_left) ==
    LET canvas_pos ==
            IF old_origin_top_left
            THEN marker.system_position
            ELSE pos2(marker.system_position.x,
                      RSub(s.canvas.height, marker.system_position.y))
    IN  [marker EXCEPT
            !.system_position = to_system_coordinates(s.coordinate_system, canvas_pos),
            !.position = to_system_coordinates(s.coordinate_system, canvas_pos)]

\* an origin change that leaves the marker as it is
recalculate_marker_skipped(s, marker, old_origin_top_left) == marker

\* the recomputation of one marker on an origin change
recalculate_marker(s, marker, old_origin_top_left) ==
    LET canvas_pos ==
            IF old_origin_top_left
            THEN marker.system_position
            ELSE pos2(marker.system_position.x,
                      RSub(s.canvas.height, marker.system_position.y))
    IN  [marker EXCEPT
            !.system_position = to_system_coordinates(s.coordinate_system, canvas_pos)]

\* an origin panel that recalculates whatever the checkbox holds
coordinate_system_panel_always(s, origin_top_left, recalculate_markers) ==
    LET s1 == [s EXCEPT !.ui_state.origin_top_left = origin_top_left,
                        !.ui_state.recalculate_markers = recalculate_markers]
    IN  IF origin_top_left # s.ui_state.origin_top_left
        THEN LET old_origin_top_left == s1.coordinate_system.origin_top_left
                 s2 == [s1 EXCEPT
                          !.coordinate_system =
                              set_origin_top_left(@, origin_top_left)]
             IN  [s2 EXCEPT
                    !.markers =
                       [i \in 1 .. Len(@) |->
                           recalculate_marker(s2, @[i], old_origin_top_left)]]
        ELSE s1

\* "Coordinate System": the radio clicked picks `origin_top_left`, the
\* checkbox holds recalculate_markers
coordinate_system_panel(s, origin_top_left, recalculate_markers) ==
    LET changed == origin_top_left # s.ui_state.origin_top_left
        s1 == [s EXCEPT !.ui_state.origin_top_left = origin_top_left,
                        !.ui_state.recalculate_markers = recalculate_markers]
    IN  IF changed
        THEN LET old_origin_top_left == s1.coordinate_system.origin_top_left
                 s2 == [s1 EXCEPT
                          !.coordinate_system =
                              set_origin_top_left(@, s1.ui_state.origin_top_left)]
             IN  IF /\ s2.ui_state.recalculate_markers
                    /\ old_origin_top_left # s2.ui_state.origin_top_left
                 THEN [s2 EXCEPT
                         !.markers =
                            [i \in 1 .. Len(@) |->
                                recalculate_marker(s2, @[i], old_origin_top_left)]]
                 ELSE s2
        ELSE s1

\* the clipboard field after ClipboardProvider::new().ok(): the service, if
\* the host provided one, and the text it holds (None until a copy succeeds)
Clipboard_new(present) == [present |-> present, contents |-> None]

\* copy_to_clipboard reporting success whenever there is a service
copy_to_clipboard_unchecked(cb, text, ok) ==
    IF cb.present
    THEN [clipboard |-> IF ok THEN [cb EXCEPT !.contents = Some(text)] ELSE cb,
          result |-> TRUE]
    ELSE [clipboard |-> cb, result |-> FALSE]

\* copy_to_clipboard; ok is the outcome of set_contents, which is the host's.
\* A failed set_contents is taken to leave the clipboard's text as it was.
copy_to_clipboard(cb, text, ok) ==
    IF cb.present
    THEN [clipboard |-> IF ok THEN [cb EXCEPT !.contents = Some(text)] ELSE cb,
          result |-> ok]
    ELSE [clipboard |-> cb, result |-> FALSE]

\* a conversion to the integer below
as_i32_floor(a) == a[1] \div a[2]

\* `as i32` of an f32: the fraction is dropped, towards zero (the
\* saturation at the ends of i32 is beyond the model's numbers)
as_i32(a) ==
    IF a[1] >= 0 THEN a[1] \div a[2] ELSE -((-a[1]) \div a[2])

\* format!("({}, {})", x, y) of the "Current Position" row
coords_text(s) ==
    "(" \o ToString(as_i32(s.ui_state.current_position.x)) \o ", "
        \o ToString(as_i32(s.ui_state.current_position.y)) \o ")"

\* format!("{}. ({}, {})", i + 1, x, y), i counting from 0
marker_text(i, marker) ==
    ToString(i + 1) \o ". (" \o ToString(as_i32(marker.system_position.x))
        \o ", " \o ToString(as_i32(marker.system_position.y)) \o ")"

\* the coordinates of a list entry with the parentheses of its label
coords_parenthesised(marker) ==
    "(" \o ToString(as_i32(marker.system_position.x)) \o ", "
        \o ToString(as_i32(marker.system_position.y)) \o ")"

\* format!("{}, {}", x, y): the text the Copy button of a list entry holds
coords(marker) ==
    ToString(as_i32(marker.system_position.x)) \o ", "
        \o ToString(as_i32(marker.system_position.y))

\* Vec<String>::join("\n")
RECURSIVE join(_, _)
join(lines, sep) ==
    IF lines = <<>> THEN ""
    ELSE IF Len(lines) = 1 THEN lines[1]
    ELSE lines[1] \o sep \o join(Tail(lines), sep)

\* the text of "Copy All Coordinates"
all_coords(s) ==
    join([k \in 1 .. Len(s.markers) |-> marker_text(k - 1, s.markers[k])], "\n")

\* a clear that drops the last marker only (Vec::pop)
clear_markers_last(s) ==
    [s EXCEPT !.markers = SubSeq(@, 1, Len(@) - 1)]

\* "Clear Markers": self.markers.clear()
clear_markers(s) == [s EXCEPT !.markers = <<>>]

\* a Delete that takes the entry's number for its index
delete_marker_numbered(s, index) ==
    IF index < Len(s.markers)
    THEN [s EXCEPT !.markers = remove(@, index)]
    ELSE s

\* the end of the marker list block: marker_to_remove = Some(index), index
\* counting from 0
delete_marker(s, index) ==
    IF index < Len(s.markers)
    THEN [s EXCEPT !.markers = remove(@, index + 1)]
    ELSE s

-----------------------------------------------------------------------------
(* The inputs of the model *)

\* the most operations in one run of the controller
MaxSteps == 3

\* the rectangle egui allocates to the canvas widget (response.rect)
canvas_rect == Rect(pos2(f32(0), f32(0)), pos2(f32(1000), f32(760)))

\* pointer positions; at startup (1920x1080 at 50%, no pan) the canvas covers
\* (20,110)-(980,650) of the widget and these are the canvas points
\* (900,450), (906,458), (902,450), (1920,1080), (4,540) and (-20,-120)
PtA == pos2(f32(470), f32(335))
PtB == pos2(f32(473), f32(339))
PtC == pos2(f32(471), f32(335))
PtCorner == pos2(f32(980), f32(650))
PtLeft == pos2(f32(22), f32(380))
PtOutside == pos2(f32(10), f32(50))

HoverPoints == {PtA, PtB, PtC, PtCorner, PtLeft, PtOutside}

PanDeltas == {pos2(f32(30), f32(-20))}

\* a canvas point left of the canvas
CanvasPoints == {pos2(f32(-20), f32(450))}

Frame(drag, scroll_delta, hover_pos, clicked, secondary_clicked) ==
    [drag |-> drag, scroll_delta |-> scroll_delta, hover_pos |-> hover_pos,
     clicked |-> clicked, secondary_clicked |-> secondary_clicked]

\* frames with a click: primary or secondary, nothing else
ClickFrames ==
    {Frame(None, 0, Some(p), TRUE, FALSE) :
        p \in {PtA, PtB, PtCorner, PtLeft, PtOutside}}
    \cup {Frame(None, 0, Some(p), FALSE, TRUE) : p \in {PtB, PtC, PtOutside}}

\* the frames of the controller's runs: hover, drag, scroll, click, a scroll
\* and a click in one frame, and a drag and a scroll in one frame with the
\* pointer over the widget
FrameInputs ==
    {Frame(None, 0, Some(PtOutside), FALSE, FALSE)}
    \cup {Frame(Some(d), 0, None, FALSE, FALSE) : d \in PanDeltas}
    \cup {Frame(Some(d), 1, Some(PtOutside), FALSE, FALSE) : d \in PanDeltas}
    \cup {Frame(None, sd, Some(PtA), FALSE, FALSE) : sd \in {-1, 1}}
    \cup ClickFrames
    \cup {Frame(None, -1, Some(PtA), TRUE, FALSE)}

\* the presets picked in the combo box
PresetChoices == {"HD (1280x720)", "iPhone (390x844)", "Custom"}

CustomWidths == {f32(800)}
CustomHeights == {f32(600)}
GridSizes == {f32(50)}
Colors == {<<255, 0, 0>>}

-----------------------------------------------------------------------------
(* The controller as a state machine: one action per widget of update *)

State ==
    [canvas |-> canvas, grid |-> grid, coordinate_system |-> coordinate_system,
     markers |-> markers, ui_state |-> ui_state,
     resolution_presets |-> resolution_presets]

Becomes(s, op, args) ==
    /\ canvas' = s.canvas
    /\ grid' = s.grid
    /\ coordinate_system' = s.coordinate_system
    /\ markers' = s.markers
    /\ ui_state' = s.ui_state
    /\ resolution_presets' = s.resolution_presets
    /\ clipboard' = clipboard
    /\ budget' = budget - 1
    /\ last' = [op |-> op, args |-> args, pre |-> State]

Init ==
    /\ canvas = new.canvas
    /\ grid = new.grid
    /\ coordinate_system = new.coordinate_system
    /\ markers = new.markers
    /\ ui_state = new.ui_state
    /\ resolution_presets = new.resolution_presets
    /\ clipboard = Clipboard_new(TRUE)
    /\ budget = MaxSteps
    /\ last = [op |-> "new", args |-> <<>>, pre |-> new]

\* "Reset View"
ResetView ==
    budget > 0 /\ Becomes([State EXCEPT !.canvas = reset_view(@)], "reset_view", <<>>)

\* "Clear Markers"
ClearMarkers ==
    budget > 0 /\ Becomes(clear_markers(State), "clear_markers", <<>>)

\* the Resolution combo box
SelectResolution ==
    \E preset \in PresetChoices :
        budget > 0 /\ Becomes(canvas_size_panel(State, preset, ui_state.custom_width,
                                  ui_state.custom_height),
                "select_resolution", <<preset>>)

\* the Width drag value, shown while Custom is selected
EditCustomWidth ==
    /\ ui_state.selected_resolution = "Custom"
    /\ \E w \in CustomWidths :
        budget > 0 /\ Becomes(canvas_size_panel(State, "Custom", w, ui_state.custom_height),
                "custom_width", <<w>>)

\* the Height drag value, shown while Custom is selected
EditCustomHeight ==
    /\ ui_state.selected_resolution = "Custom"
    /\ \E h \in CustomHeights :
        budget > 0 /\ Becomes(canvas_size_panel(State, "Custom", ui_state.custom_width, h),
                "custom_height", <<h>>)

\* the "Grid Size" drag value
SetGridSize ==
    \E g \in GridSizes :
        budget > 0 /\ Becomes(grid_panel(State, ui_state.show_grid, g, ui_state.enable_snapping),
                "grid_size", <<g>>)

\* the "Snap to Grid" checkbox
ToggleSnapping ==
    budget > 0 /\ Becomes(grid_panel(State, ui_state.show_grid, ui_state.grid_size,
                       ~ui_state.enable_snapping),
            "enable_snapping", <<>>)

\* a click on one of the two origin radio buttons
ClickOrigin ==
    \E origin_top_left \in BOOLEAN :
        budget > 0 /\ Becomes(coordinate_system_panel(State, origin_top_left,
                                        ui_state.recalculate_markers),
                "origin", <<origin_top_left>>)

\* the "Recalculate markers on origin change" checkbox
ToggleRecalculate ==
    budget > 0 /\ Becomes(coordinate_system_panel(State, ui_state.origin_top_left,
                                    ~ui_state.recalculate_markers),
            "recalculate_markers", <<>>)

\* the marker colour picker
SetMarkerColor ==
    \E c \in Colors :
        budget > 0 /\ Becomes([State EXCEPT !.ui_state.marker_color = c], "marker_color", <<c>>)

\* a frame with pointer input on the canvas widget
CanvasFrame ==
    \E inp \in FrameInputs :
        budget > 0 /\ Becomes(handle_canvas_interactions(State, canvas_rect, inp), "canvas", inp)

\* "Delete" on an entry of the marker list; i is the entry's number, the
\* index its loop variable held is i - 1
DeleteMarker ==
    \E i \in 1 .. Len(markers) :
        budget > 0 /\ Becomes(delete_marker(State, i - 1), "delete", <<i - 1>>)

Next ==
    \/ ResetView
    \/ ClearMarkers
    \/ SelectResolution
    \/ EditCustomWidth
    \/ EditCustomHeight
    \/ SetGridSize
    \/ ToggleSnapping
    \/ ClickOrigin
    \/ ToggleRecalculate
    \/ SetMarkerColor
    \/ DeleteMarker
    \/ CanvasFrame

Spec == Init /\ [][Next]_vars

-----------------------------------------------------------------------------
(* The Canvas on its own: any sequence of calls of its mutating methods,   *)
(* with arguments the controller never passes (any factor, pivot, viewport) *)

\* the most Canvas calls in one run
MaxCanvasCalls == 3

Factors == {Rat(11, 10), Rat(10, 11), f32(25), Rat(1, 25)}
Pivots == {PtA, PtCorner}
ViewRects == {canvas_rect, Rect(pos2(f32(40), f32(10)), pos2(f32(700), f32(500)))}
Deltas == {pos2(f32(-7), f32(20))}
Sizes == {<<f32(800), f32(600)>>}

CanvasInit ==
    /\ canvas = new.canvas
    /\ grid = new.grid
    /\ coordinate_system = new.coordinate_system
    /\ markers = new.markers
    /\ ui_state = new.ui_state
    /\ resolution_presets = new.resolution_presets
    /\ clipboard = Clipboard_new(TRUE)
    /\ budget = MaxCanvasCalls
    /\ last = [op |-> "new", args |-> <<>>, pre |-> new]

CallZoomAt ==
    \E factor \in Factors, pos \in Pivots, view_rect \in ViewRects :
        budget > 0 /\ Becomes([State EXCEPT !.canvas = zoom_at(@, factor, pos, view_rect)],
                "zoom_at",
                [factor |-> factor, pos |-> pos, view_rect |-> view_rect])

CallPan ==
    \E delta \in Deltas :
        budget > 0 /\ Becomes([State EXCEPT !.canvas = pan(@, delta)], "pan", <<delta>>)

CallSetSize ==
    \E size \in Sizes :
        budget > 0 /\ Becomes([State EXCEPT !.canvas = Canvas_set_size(@, size[1], size[2])],
                "set_size", size)

CallResetView ==
    budget > 0 /\ Becomes([State EXCEPT !.canvas = reset_view(@)], "reset_view", <<>>)

CanvasNext == CallZoomAt \/ CallPan \/ CallSetSize \/ CallResetView

CanvasSpec == CanvasInit /\ [][CanvasNext]_vars

-----------------------------------------------------------------------------
(* Marker placement and removal on their own: the controller's runs made   *)
(* of click frames and of the "Snap to Grid" checkbox                      *)

\* the most operations in one run of marker placement and removal
MaxMarkerSteps == 4

MarkerInit ==
    /\ canvas = new.canvas
    /\ grid = new.grid
    /\ coordinate_system = new.coordinate_system
    /\ markers = new.markers
    /\ ui_state = new.ui_state
    /\ resolution_presets = new.resolution_presets
    /\ clipboard = Clipboard_new(TRUE)
    /\ budget = MaxMarkerSteps
    /\ last = [op |-> "new", args |-> <<>>, pre |-> new]

\* a frame with a primary or a secondary click on the canvas widget
ClickFrame ==
    \E inp \in ClickFrames :
        budget > 0 /\ Becomes(handle_canvas_interactions(State, canvas_rect, inp),
                              "canvas", inp)

MarkerNext == ToggleSnapping \/ ClickFrame \/ DeleteMarker

MarkerSpec == MarkerInit /\ [][MarkerNext]_vars

-----------------------------------------------------------------------------
(* apply_grid_snapping as a function: the controller is in a state its     *)
(* settings panels lead to (a canvas size, a grid size, snapping on) and    *)
(* the function is applied to a raw canvas point                            *)

\* the canvas sizes of the preset table, and Custom set to 800 x 600
CanvasSettings ==
    {<<p, Presets[p][1], Presets[p][2]>> : p \in DOMAIN Presets \ {"Custom"}}
    \cup {<<"Custom", f32(800), f32(600)>>}

\* grid sizes of the drag value's range 5 ..= 100
SnapGridSizes == {f32(5), f32(20), f32(45), f32(50), f32(100)}

\* the controller after the settings panels were used
Configured(setting, grid_size, enable_snapping, origin_top_left) ==
    coordinate_system_panel(
        grid_panel(canvas_size_panel(new, setting[1], setting[2], setting[3]),
                   TRUE, grid_size, enable_snapping),
        origin_top_left, TRUE)

StartsAs(s) ==
    /\ canvas = s.canvas
    /\ grid = s.grid
    /\ coordinate_system = s.coordinate_system
    /\ markers = s.markers
    /\ ui_state = s.ui_state
    /\ resolution_presets = s.resolution_presets
    /\ clipboard = Clipboard_new(TRUE)
    /\ budget = 0
    /\ last = [op |-> "new", args |-> <<>>, pre |-> s]

\* the result of a call, kept in last; the controller's state is not changed.
\* Each run makes one call, on the state it starts in.
Returns(op, args, result) ==
    /\ last' = [op |-> op, args |-> args, pre |-> State, result |-> result]
    /\ UNCHANGED <<canvas, grid, coordinate_system, markers, ui_state,
                   resolution_presets, clipboard, budget>>

SnapInit ==
    \E setting \in CanvasSettings, grid_size \in SnapGridSizes :
        StartsAs(Configured(setting, grid_size, TRUE, TRUE))

\* raw coordinates along an axis of length len: at and next to both ends, the
\* two edge thresholds, inner values, a value past the far end
AxisValues(len, grid_size) ==
    {f32(0), f32(3), RDiv(grid_size, f32(2)), f32(37), f32(41), f32(300),
     RSub(len, RDiv(grid_size, f32(2))), RSub(len, f32(5)), len,
     RAdd(len, f32(30))}

CallSnap ==
    /\ last.op = "new"
    /\ \E x \in AxisValues(canvas.width, grid.size),
          y \in AxisValues(canvas.height, grid.size) :
        Returns("apply_grid_snapping", pos2(x, y),
                apply_grid_snapping(State, pos2(x, y)))

SnapNext == CallSnap

SnapSpec == SnapInit /\ [][SnapNext]_vars

-----------------------------------------------------------------------------
(* The CoordinateSystem conversions as functions: any origin convention,   *)
(* any canvas height the settings lead to, any point                        *)

CoordInit ==
    \E setting \in CanvasSettings, origin_top_left \in BOOLEAN :
        StartsAs(Configured(setting, f32(45), TRUE, origin_top_left))

CoordPoints ==
    {pos2(x, y) : x \in {f32(10), Rat(-7, 2)},
                  y \in {f32(0), f32(20), f32(580), Rat(1081, 2), f32(-15)}}

CallToSystem ==
    /\ last.op = "new"
    /\ \E p \in CoordPoints :
        Returns("to_system_coordinates", p,
                to_system_coordinates(coordinate_system, p))

CallFromSystem ==
    /\ last.op = "new"
    /\ \E p \in CoordPoints :
        Returns("from_system_coordinates", p,
                from_system_coordinates(coordinate_system, p))

CoordNext == CallToSystem \/ CallFromSystem

CoordSpec == CoordInit /\ [][CoordNext]_vars

-----------------------------------------------------------------------------
(* The side panel's copy buttons and marker list: the controller is in a   *)
(* state that canvas frames and settings lead to, with or without a        *)
(* clipboard service, and the buttons are pressed                           *)

\* the most button presses in one run of the side panel
MaxPanelSteps == 2

\* a pointer position in the lower half of the canvas
PtLow == pos2(f32(473), f32(600))

\* what the user does before turning to the side panel, one step after the
\* other: two markers on grid points; snapping off and the wheel turned up
\* (zoom 55%); two markers at fractional canvas points; Custom 800 x 600 and
\* the origin moved to bottom-left, after which display positions are
\* negative and fractional
Preparation ==
    << [op |-> "canvas", args |-> Frame(None, 0, Some(PtA), TRUE, FALSE)],
       [op |-> "canvas", args |-> Frame(None, 0, Some(PtCorner), TRUE, FALSE)],
       [op |-> "enable_snapping", args |-> <<>>],
       [op |-> "canvas", args |-> Frame(None, 1, Some(PtA), FALSE, FALSE)],
       [op |-> "canvas", args |-> Frame(None, 0, Some(PtB), TRUE, FALSE)],
       [op |-> "canvas", args |-> Frame(None, 0, Some(PtLow), TRUE, FALSE)],
       [op |-> "select_resolution", args |-> <<"Custom">>],
       [op |-> "custom_width", args |-> <<f32(800)>>],
       [op |-> "custom_height", args |-> <<f32(600)>>],
       [op |-> "origin", args |-> <<FALSE>>] >>

\* the handler of a step of the preparation
Perform(s, step) ==
    CASE step.op = "canvas" ->
            handle_canvas_interactions(s, canvas_rect, step.args)
      [] step.op = "enable_snapping" ->
            grid_panel(s, s.ui_state.show_grid, s.ui_state.grid_size,
                       ~s.ui_state.enable_snapping)
      [] step.op = "select_resolution" ->
            canvas_size_panel(s, step.args[1], s.ui_state.custom_width,
                              s.ui_state.custom_height)
      [] step.op = "custom_width" ->
            canvas_size_panel(s, "Custom", step.args[1], s.ui_state.custom_height)
      [] step.op = "custom_height" ->
            canvas_size_panel(s, "Custom", s.ui_state.custom_width, step.args[1])
      [] step.op = "origin" ->
            coordinate_system_panel(s, step.args[1], s.ui_state.recalculate_markers)

\* the clipboard service is there or not, as ClipboardProvider::new() decided
PanelInit ==
    \E present \in BOOLEAN :
        /\ canvas = new.canvas
        /\ grid = new.grid
        /\ coordinate_system = new.coordinate_system
        /\ markers = new.markers
        /\ ui_state = new.ui_state
        /\ resolution_presets = new.resolution_presets
        /\ clipboard = Clipboard_new(present)
        /\ budget = MaxPanelSteps
        /\ last = [op |-> "new", args |-> <<>>, pre |-> new]

\* the controller becomes s by step k of the preparation; last.done counts
\* the steps taken
Prepared(s, k) ==
    /\ canvas' = s.canvas
    /\ grid' = s.grid
    /\ coordinate_system' = s.coordinate_system
    /\ markers' = s.markers
    /\ ui_state' = s.ui_state
    /\ resolution_presets' = s.resolution_presets
    /\ last' = [op |-> "prepare", args |-> Preparation[k], pre |-> State,
                done |-> k]
    /\ UNCHANGED <<clipboard, budget>>

\* the next step of the preparation, as long as no button of the side panel
\* was pressed
Prepare ==
    \E k \in 1 .. Len(Preparation) :
        /\ last.op \in {"new", "prepare"}
        /\ k = IF last.op = "new" THEN 1 ELSE last.done + 1
        /\ Prepared(Perform(State, Preparation[k]), k)

\* a call of copy_to_clipboard(text): the clipboard and the returned value;
\* the fields of the controller other than the clipboard are not written
Copies(op, args, text, ok) ==
    LET call == copy_to_clipboard(clipboard, text, ok)
    IN  /\ clipboard' = call.clipboard
        /\ budget' = budget - 1
        /\ last' = [op |-> op, args |-> args, pre |-> State,
                    pre_clipboard |-> clipboard, text |-> text, ok |-> ok,
                    result |-> call.result]
        /\ UNCHANGED <<canvas, grid, coordinate_system, markers, ui_state,
                       resolution_presets>>

\* "Copy" of the Current Position row
CopyCurrent ==
    \E ok \in BOOLEAN :
        budget > 0 /\ Copies("copy_current", <<>>, coords_text(State), ok)

\* "Copy All Coordinates", shown while there are markers
CopyAll ==
    /\ markers # <<>>
    /\ \E ok \in BOOLEAN :
          budget > 0 /\ Copies("copy_all", <<>>, all_coords(State), ok)

\* "Copy" on entry i of the marker list
CopyMarker ==
    \E i \in 1 .. Len(markers), ok \in BOOLEAN :
        budget > 0 /\ Copies("copy_marker", <<i - 1>>, coords(markers[i]), ok)

PanelNext == Prepare \/ CopyCurrent \/ CopyAll \/ CopyMarker \/ DeleteMarker

PanelSpec == PanelInit /\ [][PanelNext]_vars

-----------------------------------------------------------------------------
(* The origin convention on its own: the controller's runs made of the     *)
(* origin radio buttons, the recalculate checkbox, preset selections and   *)
(* click frames                                                             *)

\* the most operations in one run of origin changes
MaxOriginSteps == 4

OriginInit ==
    /\ canvas = new.canvas
    /\ grid = new.grid
    /\ coordinate_system = new.coordinate_system
    /\ markers = new.markers
    /\ ui_state = new.ui_state
    /\ resolution_presets = new.resolution_presets
    /\ clipboard = Clipboard_new(TRUE)
    /\ budget = MaxOriginSteps
    /\ last = [op |-> "new", args |-> <<>>, pre |-> new]

OriginNext == ClickOrigin \/ ToggleRecalculate \/ SelectResolution \/ ClickFrame

OriginSpec == OriginInit /\ [][OriginNext]_vars

-----------------------------------------------------------------------------
(* The variant controller, src/Screen-Coordinate-Helper/src/app.rs.  Its   *)
(* canvas frames, grid panel and marker list are those of src/src/app.rs;  *)
(* its update_canvas_resolution and its origin radio differ                *)

\* the most operations in one run of the variant controller
MaxVariantSteps == 3

Variant_update_canvas_resolution(s) ==
    LET sel == s.ui_state.selected_resolution
    IN  IF sel \in DOMAIN s.resolution_presets
        THEN LET width == s.resolution_presets[sel][1]
                 height == s.resolution_presets[sel][2]
             IN  IF sel = "Custom"
                 THEN [s EXCEPT
                        !.canvas = Canvas_set_size(@, s.ui_state.custom_width,
                                                   s.ui_state.custom_height)]
                 ELSE [s EXCEPT
                        !.canvas = Canvas_set_size(@, width, height),
                        !.ui_state.custom_width = width,
                        !.ui_state.custom_height = height]
        ELSE s

Variant_new ==
    LET ui == UiState_default
        app == [canvas |-> Canvas_new(f32(1920), f32(1080)),
                grid |-> Grid_new(f32(45), TRUE),
                coordinate_system |-> CoordinateSystem_new(TRUE),
                markers |-> <<>>,
                ui_state |-> ui,
                resolution_presets |-> Presets]
        configured ==
            [app EXCEPT
                !.grid = set_snapping(
                            set_visible(Grid_set_size(@, ui.grid_size), ui.show_grid),
                            ui.enable_snapping),
                !.coordinate_system = set_origin_top_left(@, ui.origin_top_left)]
    IN  Variant_update_canvas_resolution(configured)

\* the variant's "Canvas Size"
Variant_canvas_size_panel(s, preset, custom_width, custom_height) ==
    LET s1 == [s EXCEPT !.ui_state.selected_resolution = preset]
        s2 == IF preset = "Custom"
              THEN [s1 EXCEPT !.ui_state.custom_width = custom_width,
                              !.ui_state.custom_height = custom_height]
              ELSE s1
    IN  Variant_update_canvas_resolution(s2)

\* the variant's "Coordinate System": two radio buttons, no recalculation
Variant_coordinate_system_panel(s, origin_top_left) ==
    LET changed == origin_top_left # s.ui_state.origin_top_left
        s1 == [s EXCEPT !.ui_state.origin_top_left = origin_top_left]
    IN  IF changed
        THEN [s1 EXCEPT !.coordinate_system =
                            set_origin_top_left(@, s1.ui_state.origin_top_left)]
        ELSE s1

VariantInit ==
    /\ canvas = Variant_new.canvas
    /\ grid = Variant_new.grid
    /\ coordinate_system = Variant_new.coordinate_system
    /\ markers = Variant_new.markers
    /\ ui_state = Variant_new.ui_state
    /\ resolution_presets = Variant_new.resolution_presets
    /\ clipboard = Clipboard_new(TRUE)
    /\ budget = MaxVariantSteps
    /\ last = [op |-> "new", args |-> <<>>, pre |-> Variant_new]

VariantSelectResolution ==
    \E preset \in PresetChoices :
        budget > 0 /\ Becomes(Variant_canvas_size_panel(
                                  State, preset, ui_state.custom_width,
                                  ui_state.custom_height),
                              "select_resolution", <<preset>>)

VariantEditCustomWidth ==
    /\ ui_state.selected_resolution = "Custom"
    /\ \E w \in CustomWidths :
        budget > 0 /\ Becomes(Variant_canvas_size_panel(
                                  State, "Custom", w, ui_state.custom_height),
                              "custom_width", <<w>>)

VariantEditCustomHeight ==
    /\ ui_state.selected_resolution = "Custom"
    /\ \E h \in CustomHeights :
        budget > 0 /\ Becomes(Variant_canvas_size_panel(
                                  State, "Custom", ui_state.custom_width, h),
                              "custom_height", <<h>>)

VariantClickOrigin ==
    \E origin_top_left \in BOOLEAN :
        budget > 0 /\ Becomes(Variant_coordinate_system_panel(State, origin_top_left),
                              "origin", <<origin_top_left>>)

VariantNext ==
    \/ VariantSelectResolution
    \/ VariantEditCustomWidth
    \/ VariantEditCustomHeight
    \/ VariantClickOrigin
    \/ ClickFrame

VariantSpec == VariantInit /\ [][VariantNext]_vars

-----------------------------------------------------------------------------

(* Clicks on a moved view: the controller's runs made of scroll, drag and  *)
(* click frames, the "Snap to Grid" checkbox and the Resolution combo box, *)
(* the clicks landing on and next to the edges of the on-screen rectangle  *)

\* the most operations in one run of clicks on a moved view
MaxViewSteps == 3

\* screen points on and next to the edges of the rectangle r: two corners,
\* a point one pixel outside the far edge in x, one a pixel outside the near
\* edge in y, one a pixel inside the far corner, and a pointer position
EdgePoints(r) ==
    {r.min, r.max,
     pos2(RAdd(r.max.x, f32(1)), r.max.y),
     pos2(r.min.x, RSub(r.min.y, f32(1))),
     pos2(RSub(r.max.x, f32(1)), RSub(r.max.y, f32(1))),
     PtA}

ViewInit ==
    /\ canvas = new.canvas
    /\ grid = new.grid
    /\ coordinate_system = new.coordinate_system
    /\ markers = new.markers
    /\ ui_state = new.ui_state
    /\ resolution_presets = new.resolution_presets
    /\ clipboard = Clipboard_new(TRUE)
    /\ budget = MaxViewSteps
    /\ last = [op |-> "new", args |-> <<>>, pre |-> new]

\* the frames of these runs: a scroll with the pointer at PtA, a drag, or a
\* primary click on or next to an edge of the rectangle the canvas covers on
\* screen
ViewFrames ==
    {Frame(None, sd, Some(PtA), FALSE, FALSE) : sd \in {-1, 1}}
    \cup {Frame(Some(d), 0, None, FALSE, FALSE) : d \in PanDeltas}
    \cup {Frame(None, 0, Some(p), TRUE, FALSE) :
            p \in EdgePoints(get_screen_rect(canvas, canvas_rect))}

\* a frame with pointer input on the canvas widget
ViewFrame ==
    \E inp \in ViewFrames :
        budget > 0 /\ Becomes(handle_canvas_interactions(State, canvas_rect, inp),
                              "canvas", inp)

ViewNext == ViewFrame \/ ToggleSnapping \/ SelectResolution

ViewSpec == ViewInit /\ [][ViewNext]_vars

-----------------------------------------------------------------------------

(* Claims *)

\* C1: in every state reached by zoom_at (any factor, any pivot), pan,
\* set_size and reset_view calls, Canvas.zoom lies in [0.1, 10.0].
C1_ZoomInRange == RLe(ZoomMin, canvas.zoom) /\ RLe(canvas.zoom, ZoomMax)

\* a zoom_at whose product zoom * factor left the range at either end
C1_Witness ==
    /\ last.op = "zoom_at"
    /\ RLt(ZoomMax, RMul(last.pre.canvas.zoom, last.args.factor))
    /\ canvas.zoom = ZoomMax

\* C2: zoom_at keeps the canvas point under the pivot:
\* screen_to_canvas_pos(p, rect) is the same before and after
\* zoom_at(factor, p, rect).
C2_PivotPreserved ==
    last.op = "zoom_at" =>
        screen_to_canvas_pos(canvas, last.args.pos, last.args.view_rect)
            = screen_to_canvas_pos(last.pre.canvas, last.args.pos,
                                   last.args.view_rect)

\* C3: for a fixed Canvas state and viewport rect,
\* canvas_to_screen_pos(screen_to_canvas_pos(p)) = p for every screen point
\* p and screen_to_canvas_pos(canvas_to_screen_pos(c)) = c for every canvas
\* point c.
C3_RoundTrip ==
    \A view_rect \in ViewRects :
        /\ \A p \in {PtCorner} :
            canvas_to_screen_pos(
                canvas, screen_to_canvas_pos(canvas, p, view_rect), view_rect) = p
        /\ \A c \in CanvasPoints :
            screen_to_canvas_pos(
                canvas, canvas_to_screen_pos(canvas, c, view_rect), view_rect) = c

\* a panned, zoomed and resized canvas on which the two maps are not the
\* identity
C3_Witness ==
    /\ canvas.offset.x # f32(0)
    /\ canvas.offset.y # f32(0)
    /\ canvas.zoom \notin {DefaultZoom, f32(1), ZoomMin, ZoomMax}
    /\ canvas.width # f32(1920)
    /\ screen_to_canvas_pos(canvas, PtCorner, canvas_rect) # PtCorner

\* C4: reset_view sets offset to (0,0) and zoom to 0.5 and leaves width,
\* height and the marker list unchanged.
C4_ResetView ==
    last.op = "reset_view" =>
        /\ canvas.offset = ZERO
        /\ canvas.zoom = Rat(1, 2)
        /\ canvas.width = last.pre.canvas.width
        /\ canvas.height = last.pre.canvas.height
        /\ markers = last.pre.markers

\* "Reset View" pressed with a marker placed and the view panned and zoomed
C4_Witness ==
    /\ last.op = "reset_view"
    /\ last.pre.canvas.offset # ZERO
    /\ last.pre.canvas.zoom # Rat(1, 2)
    /\ markers # <<>>

\* the rule of the specification for one axis: 0 below g/2, the canvas
\* extent above extent - g/2, the nearest multiple of g otherwise
SnapAxis(v, g, extent) ==
    IF RLt(v, RDiv(g, f32(2))) THEN f32(0)
    ELSE IF RLt(RSub(extent, RDiv(g, f32(2))), v) THEN extent
    ELSE RMul(round(RDiv(v, g)), g)

\* C5: with snapping enabled apply_grid_snapping returns (sx, sy), sx given
\* by the edge rule on x against 0 and the width, sy by the same rule on y
\* against 0 and the height, whichever branch x took.
C5_AxesIndependent ==
    last.op = "apply_grid_snapping" =>
        last.result = pos2(SnapAxis(last.args.x, grid.size, canvas.width),
                           SnapAxis(last.args.y, grid.size, canvas.height))

\* what a frame with a primary click hands to the click branch: the click
\* point, whether it lies in the canvas's on-screen rectangle, the snapped
\* canvas point and whether that lies in [0,width] x [0,height]
ClickPoint == last.args.hover_pos[1]
ClickInside == contains(get_screen_rect(canvas, canvas_rect), ClickPoint)
ClickRaw == screen_to_canvas_pos(canvas, ClickPoint, canvas_rect)
ClickSnapped ==
    IF grid.snapping THEN apply_grid_snapping(State, ClickRaw) ELSE ClickRaw
ClickInBounds ==
    /\ RLe(f32(0), ClickSnapped.x) /\ RLe(ClickSnapped.x, canvas.width)
    /\ RLe(f32(0), ClickSnapped.y) /\ RLe(ClickSnapped.y, canvas.height)
PrimaryClick == last.op = "canvas" /\ last.args.clicked
PlainFrame == last.args.drag = None /\ last.args.scroll_delta = 0

\* C6 as claimed: a primary click appends a marker iff the click point is
\* inside the on-screen rectangle and the snapped point is within
\* [0,width] x [0,height]; otherwise the marker list and all other state
\* are unchanged.
C6_RejectedClickChangesNothing ==
    (PrimaryClick /\ PlainFrame) =>
        IF ClickInside /\ ClickInBounds
        THEN markers = Append(last.pre.markers,
                              [position |-> ClickSnapped,
                               system_position |->
                                  IF coordinate_system.origin_top_left
                                  THEN ClickSnapped
                                  ELSE pos2(ClickSnapped.x,
                                            RSub(canvas.height, ClickSnapped.y)),
                               color |-> ui_state.marker_color])
        ELSE State = last.pre

\* C6 amended: a primary click appends a marker iff the click point is inside
\* the on-screen rectangle and the snapped point is within
\* [0,width] x [0,height]; otherwise the marker list is unchanged; either
\* way the click changes nothing else, and the frame it arrives in changes
\* nothing else but the hover readout (current_position,
\* current_position_raw) and, when it also scrolls or drags, the view.
C6_PrimaryClick ==
    PrimaryClick =>
        /\ markers =
             IF ClickInside /\ ClickInBounds
             THEN Append(last.pre.markers,
                         [position |-> ClickSnapped,
                          system_position |->
                             IF coordinate_system.origin_top_left
                             THEN ClickSnapped
                             ELSE pos2(ClickSnapped.x,
                                       RSub(canvas.height, ClickSnapped.y)),
                          color |-> ui_state.marker_color])
             ELSE last.pre.markers
        /\ PlainFrame => canvas = last.pre.canvas
        /\ canvas.width = last.pre.canvas.width
        /\ canvas.height = last.pre.canvas.height
        /\ grid = last.pre.grid
        /\ coordinate_system = last.pre.coordinate_system
        /\ resolution_presets = last.pre.resolution_presets
        /\ [ui_state EXCEPT !.current_position = ZERO,
                            !.current_position_raw = ZERO]
             = [last.pre.ui_state EXCEPT !.current_position = ZERO,
                                         !.current_position_raw = ZERO]

\* a click inside the rectangle whose snapped point is past the far edge, so
\* that no marker is placed
C6_Witness ==
    /\ PrimaryClick /\ PlainFrame
    /\ ClickInside
    /\ ~ClickInBounds
    /\ markers = last.pre.markers

\* a click on the far corner of the canvas, which places a marker at
\* (width, height)
C6_WitnessBoundary ==
    /\ PrimaryClick /\ PlainFrame
    /\ ClickInside /\ ClickInBounds
    /\ ClickSnapped = pos2(canvas.width, canvas.height)
    /\ Len(markers) = Len(last.pre.markers) + 1

\* what a frame with a secondary click hands to remove_nearby_marker: the raw
\* canvas point is ClickRaw; the markers of the list before the frame whose
\* squared distance from it is below 10 * 10
SecondaryClick ==
    last.op = "canvas" /\ last.args.secondary_clicked /\ ~last.args.clicked
Distance2(a, b) ==
    RAdd(RMul(RSub(a.x, b.x), RSub(a.x, b.x)),
         RMul(RSub(a.y, b.y), RSub(a.y, b.y)))
Hits ==
    {i \in 1 .. Len(last.pre.markers) :
        RLt(Distance2(last.pre.markers[i].position, ClickRaw), f32(100))}
FirstHit == CHOOSE i \in Hits : \A j \in Hits : i <= j

\* C7: a secondary click inside the on-screen rectangle removes exactly the
\* first marker, in insertion order, at Euclidean distance strictly below 10
\* from the raw canvas point of the click; with no such marker, or outside
\* the rectangle, the marker list is unchanged.
C7_SecondaryClick ==
    SecondaryClick =>
        IF ClickInside /\ Hits # {}
        THEN markers = [j \in 1 .. Len(last.pre.markers) - 1 |->
                           IF j < FirstHit THEN last.pre.markers[j]
                           ELSE last.pre.markers[j + 1]]
        ELSE markers = last.pre.markers

\* two different markers are within reach and the earlier one is removed
C7_Witness ==
    /\ SecondaryClick /\ ClickInside
    /\ \E i, j \in Hits : last.pre.markers[i] # last.pre.markers[j]
    /\ Len(markers) = Len(last.pre.markers) - 1
    /\ \A i \in 1 .. Len(markers) : markers[i] # last.pre.markers[FirstHit]

\* a marker at distance exactly 10, whose position is the snapped click
\* point, stays
C7_WitnessThreshold ==
    /\ SecondaryClick /\ ClickInside
    /\ \E i \in 1 .. Len(last.pre.markers) :
          /\ Distance2(last.pre.markers[i].position, ClickRaw) = f32(100)
          /\ last.pre.markers[i].position = apply_grid_snapping(State, ClickRaw)
    /\ markers = last.pre.markers

\* the origin radio moved from top-left to bottom-left with recalculation on
OriginToBottomLeft ==
    /\ last.op = "origin"
    /\ last.pre.coordinate_system.origin_top_left
    /\ ~coordinate_system.origin_top_left
    /\ ui_state.recalculate_markers

\* C8: with recalculation on, moving the origin from top-left to bottom-left
\* takes each marker's display position (x, y) to (x, canvas height - y), and
\* moving it back restores every display position exactly.
C8_OriginToggle ==
    OriginToBottomLeft =>
        /\ Len(markers) = Len(last.pre.markers)
        /\ \A i \in 1 .. Len(markers) :
              /\ markers[i].system_position =
                    pos2(last.pre.markers[i].system_position.x,
                         RSub(canvas.height,
                              last.pre.markers[i].system_position.y))
              /\ markers[i].position = last.pre.markers[i].position
        /\ coordinate_system_panel(State, TRUE,
                                   ui_state.recalculate_markers).markers
             = last.pre.markers

C8_Witness ==
    /\ OriginToBottomLeft
    /\ markers # <<>>
    /\ markers[1].system_position # last.pre.markers[1].system_position
    /\ markers[1].position = last.pre.markers[1].system_position

\* C9: to_system_coordinates is the identity under a top-left origin and
\* (x, y) |-> (x, canvas_height - y) under a bottom-left origin; under both,
\* from_system_coordinates undoes to_system_coordinates and
\* to_system_coordinates undoes from_system_coordinates.
C9_Conversions ==
    /\ last.op = "to_system_coordinates" =>
          /\ last.result =
                IF coordinate_system.origin_top_left THEN last.args
                ELSE pos2(last.args.x,
                          RSub(coordinate_system.canvas_height, last.args.y))
          /\ from_system_coordinates(coordinate_system, last.result) = last.args
    /\ last.op = "from_system_coordinates" =>
          to_system_coordinates(coordinate_system, last.result) = last.args

C9_Witness ==
    /\ last.op = "to_system_coordinates"
    /\ ~coordinate_system.origin_top_left
    /\ coordinate_system.canvas_height = f32(600)
    /\ last.args = pos2(f32(10), f32(20))
    /\ last.result = pos2(f32(10), f32(580))

\* C10: in the controller the height held by the coordinate system is the
\* height of the canvas.
C10_HeightTracked == coordinate_system.canvas_height = canvas.height

C10_Witness ==
    /\ last.op \in {"select_resolution", "custom_height"}
    /\ canvas.height # last.pre.canvas.height
    /\ coordinate_system.canvas_height = canvas.height

\* the integer a display coordinate is shown as: the integer part of v,
\* rounded towards zero
Truncated(v) ==
    LET below == v[1] \div v[2]
    IN  IF v[1] < 0 /\ below * v[2] # v[1] THEN below + 1 ELSE below

\* "x, y" and "k. (x, y)" for the k-th marker (k from 1) of the list a copy
\* button was pressed on
Pair(k) ==
    ToString(Truncated(last.pre.markers[k].system_position.x)) \o ", "
        \o ToString(Truncated(last.pre.markers[k].system_position.y))
Line(k) == ToString(k) \o ". (" \o Pair(k) \o ")"

\* lines k .. n of the list, a newline between two lines and none at the end
RECURSIVE LinesFrom(_)
LinesFrom(k) ==
    IF k = Len(last.pre.markers) THEN Line(k)
    ELSE Line(k) \o "\n" \o LinesFrom(k + 1)

\* C11: "Copy All Coordinates" is there only while the marker list is not
\* empty, and hands the clipboard one line "k. (x, y)" per marker, in list
\* order, k from 1, x and y the display coordinates truncated towards zero,
\* joined by newlines with none at the end.
C11_CopyAll ==
    last.op = "copy_all" =>
        /\ last.pre.markers # <<>>
        /\ last.text = LinesFrom(1)
        /\ last.result => clipboard.contents = Some(LinesFrom(1))

\* four markers, two of them with fractional display coordinates and two
\* with negative ones, copied to a clipboard that took the text
C11_Witness ==
    /\ last.op = "copy_all"
    /\ last.result
    /\ clipboard.contents =
          Some("1. (900, 150)\n2. (1920, -480)\n3. (905, 142)\n4. (905, -331)")
    /\ last.pre.markers[4].system_position.y = Rat(-3650, 11)

CopyPressed == last.op \in {"copy_current", "copy_all", "copy_marker"}

\* C13: copy_to_clipboard returns true exactly when there is a clipboard
\* service and its set_contents succeeded; when it returns false the
\* clipboard is as it was, and the marker list, canvas, grid, coordinate
\* system and UI state are as before the call in either case.
C13_CopyResult ==
    CopyPressed =>
        /\ last.result = (last.pre_clipboard.present /\ last.ok)
        /\ ~last.result => clipboard = last.pre_clipboard
        /\ last.result => clipboard.contents = Some(last.text)
        /\ State = last.pre

\* a failed set_contents after a successful copy: the earlier text stays
C13_Witness ==
    /\ CopyPressed
    /\ last.pre_clipboard.present /\ ~last.ok
    /\ ~last.result
    /\ clipboard.contents # None
    /\ clipboard.contents # Some(last.text)

\* a copy without a clipboard service
C13_WitnessAbsent ==
    /\ CopyPressed
    /\ ~last.pre_clipboard.present /\ last.ok
    /\ ~last.result
    /\ markers # <<>>

\* C14: a marker's canvas position and colour are never rewritten while it
\* is in the list; its system_position is rewritten by an origin toggle only.
\* Step by step: an origin toggle keeps the list's length and each marker's
\* position and colour; after any other operation every marker of the list
\* is, field by field, a marker of the list before, or the marker a primary
\* click has just appended.
C14_MarkersImmutable ==
    IF last.op = "origin"
    THEN /\ Len(markers) = Len(last.pre.markers)
         /\ \A i \in 1 .. Len(markers) :
               /\ markers[i].position = last.pre.markers[i].position
               /\ markers[i].color = last.pre.markers[i].color
    ELSE \A i \in 1 .. Len(markers) :
            \/ \E j \in 1 .. Len(last.pre.markers) : markers[i] = last.pre.markers[j]
            \/ /\ last.op = "canvas" /\ last.args.clicked
               /\ i = Len(markers)
               /\ Len(markers) = Len(last.pre.markers) + 1

\* an origin toggle rewrote the display position of a marker whose colour is
\* no longer the colour of the picker
C14_Witness ==
    /\ last.op = "origin"
    /\ markers # <<>>
    /\ markers[1].system_position # last.pre.markers[1].system_position
    /\ markers[1].position = last.pre.markers[1].position
    /\ markers[1].color # ui_state.marker_color

\* the canvas positions of a marker list, in list order
Positions(list) == [i \in 1 .. Len(list) |-> list[i].position]

\* a list without its j-th element
Without(list, j) == SubSeq(list, 1, j - 1) \o SubSeq(list, j + 1, Len(list))

\* C15: the marker list is in placement order: a placement puts the new
\* marker at the end, a removal (by proximity or by Delete) leaves the others
\* in their order, and the number of a marker's list entry is its position
\* in the list, 1 .. n.
C15_PlacementOrder ==
    /\ \/ Positions(markers) = Positions(last.pre.markers)
       \/ /\ Len(markers) = Len(last.pre.markers) + 1
          /\ SubSeq(Positions(markers), 1, Len(last.pre.markers))
                = Positions(last.pre.markers)
       \/ \E j \in 1 .. Len(last.pre.markers) :
             Positions(markers) = Without(Positions(last.pre.markers), j)
    /\ \A k \in 1 .. Len(markers) :
          marker_text(k - 1, markers[k])
             = ToString(k) \o ". (" \o coords(markers[k]) \o ")"

\* the first of three markers at different points is removed by a secondary
\* click; the other two stay in their order
C15_Witness ==
    /\ SecondaryClick
    /\ Len(last.pre.markers) = 3
    /\ last.pre.markers[2].position # last.pre.markers[3].position
    /\ Positions(markers) = <<last.pre.markers[2].position,
                              last.pre.markers[3].position>>

\* the same by Delete on the first entry
C15_WitnessDelete ==
    /\ last.op = "delete" /\ last.args = <<0>>
    /\ Len(last.pre.markers) = 3
    /\ last.pre.markers[2].position # last.pre.markers[3].position
    /\ Positions(markers) = <<last.pre.markers[2].position,
                              last.pre.markers[3].position>>

\* a use of the Canvas Size panel that changed the selection or a custom value
ResolutionChanged ==
    last.op \in {"select_resolution", "custom_width", "custom_height"}

\* C16: a resolution change replaces the canvas width and height (and the
\* height the coordinate system tracks) and leaves the canvas offset and
\* zoom, the marker list and the grid settings as they were.
C16_ResolutionChange ==
    ResolutionChanged =>
        /\ canvas.width =
              IF ui_state.selected_resolution = "Custom"
              THEN ui_state.custom_width
              ELSE Presets[ui_state.selected_resolution][1]
        /\ canvas.height =
              IF ui_state.selected_resolution = "Custom"
              THEN ui_state.custom_height
              ELSE Presets[ui_state.selected_resolution][2]
        /\ coordinate_system.canvas_height = canvas.height
        /\ coordinate_system.origin_top_left
              = last.pre.coordinate_system.origin_top_left
        /\ canvas.offset = last.pre.canvas.offset
        /\ canvas.zoom = last.pre.canvas.zoom
        /\ markers = last.pre.markers
        /\ grid = last.pre.grid

\* a zoomed view with a marker is given a smaller canvas, which the marker
\* is outside of
C16_Witness ==
    /\ ResolutionChanged
    /\ canvas.height # last.pre.canvas.height
    /\ canvas.width # last.pre.canvas.width
    /\ canvas.zoom # DefaultZoom /\ canvas.offset # ZERO
    /\ markers # <<>>
    /\ RLt(canvas.width, markers[1].position.x)

\* deltas of a drag, one of them far larger than the canvas
DragDeltas ==
    {pos2(f32(-7), f32(20)), pos2(Rat(61, 2), f32(-20)), pos2(f32(25000), f32(-40000))}

\* C17: pan(delta) adds delta to the offset, without a limit, and leaves
\* zoom, width and height alone; so two pans in either order end at the
\* offset plus the sum of their deltas.  The controller's drag does the
\* same.
C17_Pan ==
    /\ last.op = "pan" =>
          /\ canvas.offset.x = RAdd(last.pre.canvas.offset.x, last.args[1].x)
          /\ canvas.offset.y = RAdd(last.pre.canvas.offset.y, last.args[1].y)
          /\ canvas.zoom = last.pre.canvas.zoom
          /\ canvas.width = last.pre.canvas.width
          /\ canvas.height = last.pre.canvas.height
    /\ \A d1, d2 \in DragDeltas :
          /\ pan(pan(canvas, d1), d2)
                = [canvas EXCEPT
                     !.offset.x = RAdd(canvas.offset.x, RAdd(d1.x, d2.x)),
                     !.offset.y = RAdd(canvas.offset.y, RAdd(d1.y, d2.y))]
          /\ pan(pan(canvas, d1), d2) = pan(pan(canvas, d2), d1)
          /\ handle_canvas_interactions(State, canvas_rect,
                                        Frame(Some(d1), 0, None, FALSE, FALSE)).canvas
                = pan(canvas, d1)

\* a pan of a view that was zoomed and panned before
C17_Witness ==
    /\ last.op = "pan"
    /\ last.pre.canvas.offset.x # f32(0) /\ last.pre.canvas.offset.y # f32(0)
    /\ canvas.zoom # DefaultZoom
    /\ canvas.offset # last.pre.canvas.offset

\* C18: "Clear Markers" empties the marker list and leaves the canvas size,
\* offset and zoom, the grid settings and the origin convention as they
\* were; a marker placed next is entry 1 of the list.
C18_ClearMarkers ==
    last.op = "clear_markers" =>
        /\ markers = <<>>
        /\ canvas = last.pre.canvas
        /\ grid = last.pre.grid
        /\ coordinate_system = last.pre.coordinate_system
        /\ \A inp \in ClickFrames :
              LET s == handle_canvas_interactions(State, canvas_rect, inp)
              IN  \/ s.markers = <<>>
                  \/ /\ Len(s.markers) = 1
                     /\ marker_text(0, s.markers[1])
                           = "1. (" \o coords(s.markers[1]) \o ")"

\* two markers are cleared, and a click on the canvas would place one
C18_Witness ==
    /\ last.op = "clear_markers"
    /\ Len(last.pre.markers) = 2
    /\ markers = <<>>
    /\ \E inp \in ClickFrames :
          handle_canvas_interactions(State, canvas_rect, inp).markers # <<>>

\* C19: "Delete" on a list entry removes the marker at the entry's index of
\* the list as rendered, one marker at most, and leaves the other markers
\* as they were and in their order; an index past the end removes nothing.
C19_Delete ==
    /\ last.op = "delete" =>
          /\ last.args[1] < Len(last.pre.markers)
          /\ markers = Without(last.pre.markers, last.args[1] + 1)
          /\ Len(markers) = Len(last.pre.markers) - 1
    /\ delete_marker(State, Len(markers)) = State

\* the second of four markers is deleted
C19_Witness ==
    /\ last.op = "delete"
    /\ last.args = <<1>>
    /\ Len(last.pre.markers) = 4
    /\ markers = <<last.pre.markers[1], last.pre.markers[3], last.pre.markers[4]>>
    /\ last.pre.markers[1] # last.pre.markers[2]

\* an origin radio click that changed the convention, with recalculation on
OriginRecalculated ==
    /\ last.op = "origin"
    /\ coordinate_system.origin_top_left
          # last.pre.coordinate_system.origin_top_left
    /\ ui_state.recalculate_markers

\* C20: after an origin toggle with recalculation on, from any state, each
\* marker's system_position is the new convention applied to the marker's
\* stored canvas position.
C20_RecalculatedFromPosition ==
    OriginRecalculated =>
        \A i \in 1 .. Len(markers) :
            markers[i].system_position =
                IF coordinate_system.origin_top_left
                THEN markers[i].position
                ELSE pos2(markers[i].position.x,
                          RSub(canvas.height, markers[i].position.y))

\* the display position of canvas point p under the convention top_left
Convention(top_left, p) ==
    IF top_left THEN p ELSE pos2(p.x, RSub(canvas.height, p.y))

\* an origin radio click that changed the convention, with recalculation off
OriginToggledPlain ==
    /\ last.op = "origin"
    /\ last.args[1] # last.pre.ui_state.origin_top_left
    /\ ~last.pre.ui_state.recalculate_markers

\* C21: an origin toggle made with "recalculate markers on origin change" off
\* leaves every existing marker's system_position (and the marker list) as it
\* was, and the frames that follow use the new convention: the hover readout
\* is the new convention applied to the pointer's canvas point (raw and
\* snapped), and a marker a click places gets the new convention applied to
\* its canvas position.
C21_TogglePlain ==
    OriginToggledPlain =>
        /\ markers = last.pre.markers
        /\ \A inp \in {f \in ClickFrames : f.clicked} :
              LET after == handle_canvas_interactions(State, canvas_rect, inp)
                  raw == screen_to_canvas_pos(canvas, inp.hover_pos[1], canvas_rect)
                  n == Len(markers)
              IN  /\ after.ui_state.current_position_raw
                        = Convention(last.args[1], raw)
                  /\ after.ui_state.current_position
                        = Convention(last.args[1], snapped(State, raw))
                  /\ SubSeq(after.markers, 1, n) = markers
                  /\ \A i \in (n + 1) .. Len(after.markers) :
                        after.markers[i].system_position
                            = Convention(last.args[1], after.markers[i].position)

\* the origin moved to bottom-left with recalculation off while a marker
\* exists: the marker keeps the top-left display position, which is not the
\* bottom-left one, and a click in the next frame would place a marker
C21_Witness ==
    /\ OriginToggledPlain
    /\ ~last.args[1]
    /\ markers # <<>>
    /\ markers[1].system_position = markers[1].position
    /\ markers[1].system_position # Convention(FALSE, markers[1].position)
    /\ Len(handle_canvas_interactions(
              State, canvas_rect, Frame(None, 0, Some(PtA), TRUE, FALSE)).markers)
          = Len(markers) + 1

\* p lies in [0,width] x [0,height] of the canvas
InCanvas(p) ==
    /\ RLe(f32(0), p.x) /\ RLe(p.x, canvas.width)
    /\ RLe(f32(0), p.y) /\ RLe(p.y, canvas.height)

\* v is within g/2 of the near end (0) or of the far end of an axis
NearEnd(v, g, extent) ==
    IF RLt(v, RDiv(g, f32(2))) THEN Some(f32(0))
    ELSE IF RLt(RSub(extent, RDiv(g, f32(2))), v) THEN Some(extent)
    ELSE None

\* C22: with snapping on, every raw canvas point inside [0,width] x
\* [0,height] snaps to a point inside [0,width] x [0,height] (so that every
\* primary click inside the on-screen rectangle places a marker), and a raw
\* point within g/2 of two adjacent edges snaps exactly to their corner.
C22_NoDeadZone ==
    (last.op = "apply_grid_snapping" /\ InCanvas(last.args)) =>
        /\ InCanvas(last.result)
        /\ LET ex == NearEnd(last.args.x, grid.size, canvas.width)
               ey == NearEnd(last.args.y, grid.size, canvas.height)
           IN  (ex # None /\ ey # None) => last.result = pos2(ex[1], ey[1])

\* zoom_at was called; the zoom it started from, the product it asked for and
\* the pivot's offset from the centre of the viewport
ZoomCalled == last.op = "zoom_at"
OldZoom == last.pre.canvas.zoom
Requested == RMul(OldZoom, last.args.factor)
PivotOffset == VSub(last.args.pos, center(last.args.view_rect))

\* the zoom is at the end of its range the factor pushes against
Saturated ==
    \/ OldZoom = f32(10) /\ RLt(f32(1), last.args.factor)
    \/ OldZoom = Rat(1, 10) /\ RLt(last.args.factor, f32(1))

\* the requested product leaves the range from a zoom that is not saturated
PartlyClamped ==
    /\ ~Saturated
    /\ RLt(Requested, Rat(1, 10)) \/ RLt(f32(10), Requested)

\* C23: a zoom_at at zoom 10.0 with factor > 1, or at zoom 0.1 with factor
\* < 1, leaves zoom and offset unchanged for every pivot; when the clamp
\* cuts the requested product, the offset moves by the pivot's offset from
\* the viewport centre times (clamped zoom / old zoom - 1), not times
\* (factor - 1).
C23_ClampedZoom ==
    ZoomCalled =>
        /\ Saturated => canvas = last.pre.canvas
        /\ PartlyClamped =>
              /\ canvas.zoom = IF RLt(f32(10), Requested) THEN f32(10)
                               ELSE Rat(1, 10)
              /\ canvas.offset =
                    VSub(last.pre.canvas.offset,
                         VScale(PivotOffset,
                                RSub(RDiv(canvas.zoom, OldZoom), f32(1))))

\* a zoom_at at zoom 10 with factor > 1, off the viewport centre, with the
\* view moved away from the centre
C23_Witness ==
    /\ ZoomCalled /\ Saturated
    /\ OldZoom = f32(10)
    /\ PivotOffset.x # f32(0) /\ PivotOffset.y # f32(0)
    /\ last.pre.canvas.offset # ZERO

\* a zoom_at from inside the range whose product the clamp cuts: the offset
\* is not the one the requested factor would give
C23_WitnessPartly ==
    /\ ZoomCalled /\ PartlyClamped
    /\ canvas.offset # last.pre.canvas.offset
    /\ canvas.offset #
          VSub(last.pre.canvas.offset,
               VScale(PivotOffset, RSub(last.args.factor, f32(1))))

\* a frame of the canvas widget with the pointer over it; the canvas point
\* under the pointer, by the transform the frame ends with
FrameHovered == last.op = "canvas" /\ last.args.hover_pos # None
HoverPoint == screen_to_canvas_pos(canvas, last.args.hover_pos[1], canvas_rect)

\* C24: after a frame in which the pointer hovers the canvas widget,
\* current_position_raw is to_system_coordinates(c) and current_position is
\* to_system_coordinates(snap(c)), snap being the identity with snapping
\* off, where c is screen_to_canvas_pos of the pointer under the transform
\* that results from the frame's pan and zoom, whether or not the pointer is
\* inside the canvas border rectangle; after a frame without hover both keep
\* their previous contents.
C24_HoverReadout ==
    last.op = "canvas" =>
        IF last.args.hover_pos # None
        THEN /\ ui_state.current_position_raw
                   = to_system_coordinates(coordinate_system, HoverPoint)
             /\ ui_state.current_position
                   = to_system_coordinates(
                        coordinate_system,
                        IF grid.snapping
                        THEN apply_grid_snapping(State, HoverPoint)
                        ELSE HoverPoint)
        ELSE /\ ui_state.current_position_raw
                   = last.pre.ui_state.current_position_raw
             /\ ui_state.current_position = last.pre.ui_state.current_position

\* a frame that drags and scrolls with the pointer outside the border
\* rectangle: the readout is rewritten, and the canvas point of the
\* transform the frame started with is another one
C24_Witness ==
    /\ FrameHovered
    /\ last.args.drag # None /\ last.args.scroll_delta # 0
    /\ ~contains(get_screen_rect(canvas, canvas_rect), last.args.hover_pos[1])
    /\ ui_state.current_position_raw # last.pre.ui_state.current_position_raw
    /\ HoverPoint # screen_to_canvas_pos(last.pre.canvas, last.args.hover_pos[1],
                                         canvas_rect)
    /\ ui_state.current_position # ui_state.current_position_raw

\* a frame without hover after the readout was written
C24_WitnessNoHover ==
    /\ last.op = "canvas" /\ last.args.hover_pos = None
    /\ ui_state.current_position_raw # ZERO
    /\ canvas # last.pre.canvas

\* C25: after any sequence of preset selections and custom width / height
\* edits, the preset table's "Custom" entry is the custom width and height
\* the user entered (compared while Custom is selected), every other entry
\* of the table is the one of startup, and the canvas size is the table's
\* entry of the selected preset.
C25_PresetTable ==
    /\ ui_state.selected_resolution = "Custom" =>
          resolution_presets["Custom"]
              = <<ui_state.custom_width, ui_state.custom_height>>
    /\ \A p \in DOMAIN Presets \ {"Custom"} : resolution_presets[p] = Presets[p]
    /\ DOMAIN resolution_presets = DOMAIN Presets
    /\ <<canvas.width, canvas.height>>
          = resolution_presets[ui_state.selected_resolution]

\* C26: in the variant controller the height held by the coordinate system
\* is the height of the canvas after every resolution change, so that under
\* a bottom-left origin a marker placed at canvas (x, y) gets the display
\* position (x, canvas height - y).
C26_VariantHeightTracked ==
    /\ coordinate_system.canvas_height = canvas.height
    /\ (/\ PrimaryClick
        /\ ~coordinate_system.origin_top_left
        /\ Len(markers) = Len(last.pre.markers) + 1) =>
          LET marker == markers[Len(markers)]
          IN  marker.system_position
                  = pos2(marker.position.x,
                         RSub(canvas.height, marker.position.y))

AllWithin(list, c) ==
    \A i \in 1 .. Len(list) :
        /\ RLe(f32(0), list[i].position.x) /\ RLe(list[i].position.x, c.width)
        /\ RLe(f32(0), list[i].position.y) /\ RLe(list[i].position.y, c.height)

\* C28 as claimed: in every reachable state every stored marker's canvas
\* position lies within [0,width] x [0,height] of the current canvas size,
\* also after the resolution was changed to a smaller size while markers
\* exist.
C28_MarkersWithinCanvas == AllWithin(markers, canvas)

\* C28 amended: a marker is placed within [0,width] x [0,height] of the
\* canvas size of that moment, and no operation that keeps the canvas size
\* takes a marker out of these bounds; a resolution change keeps the marker
\* list as it is, so markers beyond the new size stay where they are; no
\* marker ever has a negative coordinate.
C28_MarkersWithinAtPlacement ==
    /\ \A i \in 1 .. Len(markers) :
          RLe(f32(0), markers[i].position.x) /\ RLe(f32(0), markers[i].position.y)
    /\ (/\ canvas.width = last.pre.canvas.width
        /\ canvas.height = last.pre.canvas.height
        /\ AllWithin(last.pre.markers, last.pre.canvas)) =>
          AllWithin(markers, canvas)
    /\ ResolutionChanged => markers = last.pre.markers

\* the canvas was made smaller while a marker lay beyond the new size: the
\* marker is still there
C28_Witness ==
    /\ ResolutionChanged
    /\ RLt(canvas.width, last.pre.canvas.width)
    /\ markers # <<>>
    /\ markers = last.pre.markers
    /\ AllWithin(last.pre.markers, last.pre.canvas)
    /\ ~AllWithin(markers, canvas)

\* a click whose snapped point is past the far edge, on a canvas that holds
\* a marker: no marker is added
C28_WitnessRejected ==
    /\ PrimaryClick /\ ClickInside /\ ~ClickInBounds
    /\ markers # <<>>
    /\ markers = last.pre.markers

\* apply_grid_snapping was called on a raw point inside the canvas
SnapCalledInside == last.op = "apply_grid_snapping" /\ InCanvas(last.args)

\* a is a whole multiple of the grid size g
MultipleOf(a, g) == RDiv(a, g)[2] = 1

C30_ZoomUpDownRestores ==
    \A pos \in Pivots, view_rect \in ViewRects :
        LET up == zoom_at(canvas, zoom_factor(1), pos, view_rect)
            down == zoom_at(up, zoom_factor(-1), pos, view_rect)
        IN  down.zoom = canvas.zoom /\ down.offset = canvas.offset

====
